---- MODULE Spec2Model ----
(***************************************************************************)
(* Model of FIJY/messenger-transcribe-bot.                                 *)
(*                                                                         *)
(* The repository holds two revisions of the same bot:                     *)
(*   - the monolith: app.py + database.py + transcribe.py (usage events),  *)
(*   - the package:  routes/webhook.py, services/message_handler.py,       *)
(*                   services/database.py, services/media_handler.py,      *)
(*                   celery_worker.py (usage counters on the user record). *)
(* The variable "revision" says which one a behaviour runs.                *)
(***************************************************************************)
EXTENDS Integers, Sequences, FiniteSets, TLC

VARIABLES
    revision,        \* which entry point this behaviour exercises
    today,           \* current UTC calendar day (datetime.now(timezone.utc).date())
    env,             \* process environment: VERIFY_TOKEN, APP_SECRET
    http,            \* the last HTTP exchange on /webhook
    appUsers,        \* database.py: users collection
    appUsage,        \* database.py: usage collection, events per user per day
    appSent,         \* app.py: messages sent while serving the last request
    appCalls,        \* app.py: download / ASR calls made while serving the last request
    users,           \* services/database.py: users collection
    transcriptions,  \* services/database.py: transcriptions collection (records per user)
    retry_info,      \* services/database.py: retry_info row of each user
    pc,              \* position of each handle_message invocation
    local,           \* locals of each handle_message invocation
    sent,            \* messages sent by each handle_message invocation
    calls,           \* download / ASR / translation calls of each invocation
    hist,            \* per-user history: welcomes sent, resets done today, reads today
    task,            \* celery_worker.py: the process_media_task job
    wSent,           \* celery_worker.py: messages sent by the job, over all attempts
    fn               \* a function of the services called on its own: arguments, result

webVars == <<env, http>>
appVars == <<appUsers, appUsage, appSent, appCalls>>
dbVars  == <<users, transcriptions, hist, retry_info>>
hVars   == <<pc, local, sent, calls>>
wVars   == <<task, wSent>>
vars    == <<revision, today, env, http, appUsers, appUsage, appSent, appCalls,
             users, transcriptions, retry_info, pc, local, sent, calls, hist, task, wSent, fn>>

----------------------------------------------------------------------------
(* Bounds of the model *)

MaxChars == 5        \* characters of a transcript given to the script analysis
MaxKeywords == 3     \* Khmer keywords found in a transcript
MaxWords == 11       \* words of a transcript given to the Khmer detection
MaxMegabytes == 101  \* size of the media data given to TranscribeService.transcribe
MaxDay == 1          \* UTC days 0..MaxDay
MaxEvents == 1       \* messaging events per webhook POST
MaxUsage == 3        \* cap on the usage a user accumulates over a behaviour

(* Program constants *)

APP_FREE_DAILY_LIMIT == 3     \* app.py: FREE_DAILY_LIMIT
MaxNotifications == 1         \* payment notifications served
FREE_DAILY_LIMIT == 2         \* MessageHandler.FREE_DAILY_LIMIT, int(os.getenv('FREE_DAILY_LIMIT', ...))
PREMIUM_DAILY_LIMIT == 3      \* MessageHandler.PREMIUM_DAILY_LIMIT, int(os.getenv('PREMIUM_DAILY_LIMIT', ...))
max_retries == 2              \* @celery_app.task(max_retries=2)

Users == {1, 2}               \* sender ids
Days == 0..MaxDay
None == "None"                \* Python None where the other values are strings
Tokens == {"tokA", "tokB"}
Challenges == {"ch1", "ch2"}
Secrets == {"s1"}
Bodies == {"b1"}              \* the raw request body as received

----------------------------------------------------------------------------
(* Webhook verification handshake: GET /webhook *)

\* What Flask makes of a view's return value: a string is a 200 body, a
\* (body, status) tuple is used as is, None is a TypeError, hence 500.
FlaskReturn(value) ==
    IF value = None THEN [status |-> 500, body |-> "Internal Server Error"]
    ELSE [status |-> 200, body |-> value]

\* routes/webhook.py verify_webhook: token and challenge are request.args.get(...)
\* (None when absent), VERIFY_TOKEN is os.getenv('VERIFY_TOKEN') (None when unset).
verify_webhook(VERIFY_TOKEN, token, challenge) ==
    IF token = VERIFY_TOKEN
    THEN FlaskReturn(challenge)
    ELSE [status |-> 403, body |-> "Invalid token"]

\* app.py verify_webhook: the same comparison.
app_verify_webhook(VERIFY_TOKEN, token, challenge) ==
    IF token = VERIFY_TOKEN
    THEN FlaskReturn(challenge)
    ELSE [status |-> 403, body |-> "Invalid token"]

----------------------------------------------------------------------------
(* Signature of a webhook body *)

\* hmac.new(secret, payload, sha256).hexdigest(): a digest determined by the
\* pair (secret, payload) and different for different pairs.
HmacSha256(secret, payload) == secret \o ":" \o payload

\* services/payment.py PaymentService.verify_webhook_signature: any exception
\* (secret None -> AttributeError, signature None -> TypeError) gives False.
verify_webhook_signature(payload, signature, webhook_secret) ==
    IF webhook_secret = None \/ signature = None
    THEN FALSE
    ELSE signature = HmacSha256(webhook_secret, payload)

\* X-Hub-Signature-256 as received: absent, the digest of the body received, or
\* the digest of the body as it was before somebody tampered with it.
Signatures == {None} \cup {HmacSha256(s, b) : s \in Secrets, b \in Bodies \cup {"b0"}}

----------------------------------------------------------------------------
(* The monolith: database.py *)

\* 'subscription_end': None in the user document; the other values are days.
NoEnd == 0 - 1

NoAppUser == [exists |-> FALSE, subscription_type |-> "free", total_transcriptions |-> 0,
              subscription_end |-> NoEnd]

\* database.py Database.get_or_create_user: find_one, insert a free user when absent.
get_or_create_user(s, u) ==
    IF s.users[u].exists THEN s
    ELSE [s EXCEPT !.users[u] =
            [exists |-> TRUE, subscription_type |-> "free", total_transcriptions |-> 0,
             subscription_end |-> NoEnd]]

\* database.py Database.update_subscription: update_one without upsert;
\* subscription_end is written only when an end date is given.
update_subscription(usrs, u, subscription_type, end_date) ==
    IF usrs[u].exists
    THEN [usrs EXCEPT ![u].subscription_type = subscription_type,
                      ![u].subscription_end = IF end_date # NoEnd THEN end_date ELSE @]
    ELSE usrs

\* database.py Database.check_subscription_status, its condition: a premium
\* subscription whose subscription_end has passed. The method sets such a user
\* to free; no line of app.py or payment.py calls it.
Expired(user, day) ==
    /\ user.exists /\ user.subscription_type = "premium"
    /\ user.subscription_end # NoEnd /\ day > user.subscription_end


\* database.py Database.get_daily_usage: usage events of the user whose
\* timestamp lies in [today 00:00, tomorrow 00:00).
get_daily_usage(usage, u, day) == usage[u][day]

\* increment_user_usage without the insert into the usage collection.
increment_user_usage_total_only(s, u, day) ==
    [s EXCEPT !.users[u].total_transcriptions =
                  IF s.users[u].exists THEN @ + 1 ELSE @,
              !.incs[u] = @ + 1]

\* database.py Database.increment_user_usage: one usage event stamped now,
\* then $inc total_transcriptions on the user document (no upsert). incs: the
\* calls of the method made while serving the request.
increment_user_usage(s, u, day) ==
    [s EXCEPT !.usage[u][day] = @ + 1,
              !.users[u].total_transcriptions =
                  IF s.users[u].exists THEN @ + 1 ELSE @,
              !.incs[u] = @ + 1]

----------------------------------------------------------------------------
(* The monolith: app.py *)

\* app.py send_message: requests.post raises when the Graph API is unreachable
\* (a non-200 answer is only logged); nothing in app.py catches it here.
send_message(s, kind, net) ==
    IF s.raised THEN s
    ELSE IF net THEN [s EXCEPT !.sent = Append(@, kind)]
    ELSE [s EXCEPT !.raised = TRUE]

\* The paid call charged to the user when it is made, whatever comes of it.
AppLogCall_charging(s, op, u, day) ==
    [s EXCEPT !.calls = Append(@, [op |-> op, user |-> u,
                                   usage |-> get_daily_usage(s.usage, u, day),
                                   sub |-> s.users[u].subscription_type]),
              !.usage[u][day] = @ + 1]

\* One paid external call, logged with the caller's quota position at that moment.
AppLogCall(s, op, u, day) ==
    [s EXCEPT !.calls = Append(@, [op |-> op, user |-> u,
                                   usage |-> get_daily_usage(s.usage, u, day),
                                   sub |-> s.users[u].subscription_type])]

\* check_user_limits with the comparison off by one: a user at the limit passes.
check_user_limits_inclusive(user, usage, u, day) ==
    IF user.subscription_type = "premium" THEN TRUE
    ELSE get_daily_usage(usage, u, day) <= APP_FREE_DAILY_LIMIT

\* app.py check_user_limits
check_user_limits(user, usage, u, day) ==
    IF user.subscription_type = "premium" THEN TRUE
    ELSE get_daily_usage(usage, u, day) < APP_FREE_DAILY_LIMIT

\* app.py handle_audio_message. in.download: download_audio succeeds;
\* in.asr: transcriber.transcribe returns success; in.net: the Graph API answers.
\* transcribed: the attachments transcribed while serving the request.
handle_audio_message(s, u, in, day) ==
    LET s1 == get_or_create_user(s, u)
        user == s1.users[u]
    IN  IF ~check_user_limits(user, s1.usage, u, day)
        THEN send_message(s1, "limit_exceeded", in.net)
        ELSE LET s2 == send_message(s1, "processing", in.net)
             IN  IF s2.raised THEN s2
                 ELSE LET s3 == AppLogCall(s2, "download", u, day)
                      IN  IF ~in.download
                          THEN send_message(s3, "error", in.net)
                          ELSE LET s4 == AppLogCall(s3, "asr", u, day)
                               IN  IF in.asr
                                   THEN LET s5 == increment_user_usage(
                                                     [s4 EXCEPT !.transcribed[u] = @ + 1],
                                                     u, day)
                                            s6 == send_message(s5, "transcript", in.net)
                                        IN  IF user.subscription_type = "free"
                                            THEN send_message(s6, "remaining", in.net)
                                            ELSE s6
                                   ELSE send_message(s4, "asr_failed", in.net)

\* app.py send_status_message
send_status_message(s, u, net) ==
    send_message(get_or_create_user(s, u), "status", net)

AppEventKinds == {"audio", "status", "text", "malformed"}

\* app.py handle_webhook, body of the inner loop for one messaging event.
\* "malformed": no sender key, messaging_event['sender'] raises KeyError.
app_dispatch(s, ev, in, day) ==
    IF ev.kind = "malformed" THEN [s EXCEPT !.raised = TRUE]
    ELSE IF ev.kind = "text"
         THEN send_message([s EXCEPT !.dispatched = @ + 1], "text_reply", in.net)
    ELSE IF ev.kind = "status"
         THEN send_status_message([s EXCEPT !.dispatched = @ + 1], ev.sender, in.net)
    ELSE IF ev.kind = "audio"
         THEN handle_audio_message([s EXCEPT !.dispatched = @ + 1], ev.sender, in, day)
    ELSE s

RECURSIVE app_dispatch_all(_, _, _, _)
app_dispatch_all(s, events, in, day) ==
    IF events = <<>> \/ s.raised THEN s
    ELSE app_dispatch_all(app_dispatch(s, Head(events), in, day), Tail(events), in, day)

\* app.py handle_webhook: no try/except, so an exception leaves the view and
\* Flask answers 500. data.object "null": request.json is None, data['object']
\* raises TypeError.
app_handle_webhook(s, data, in, day) ==
    IF data.object = "null" THEN [s EXCEPT !.raised = TRUE]
    ELSE IF data.object = "page" THEN app_dispatch_all(s, data.events, in, day)
    ELSE s

----------------------------------------------------------------------------
(* The package: routes/webhook.py *)

\* routes/webhook.py handle_webhook. data.object "null": request.json is None
\* and data.get raises AttributeError. For a page object the view builds
\* MessageHandler(db=..., transcriber=..., payment=...), but
\* MessageHandler.__init__ takes (media_handler, database, translation_service):
\* the call raises TypeError before any event is dispatched. Every exception
\* is caught by the view's except clause, which returns ('Error', 500).
routes_handle_webhook(data) ==
    IF data.object = "null" THEN [status |-> 500, body |-> "Error", dispatched |-> 0]
    ELSE IF data.object = "page" THEN [status |-> 500, body |-> "Error", dispatched |-> 0]
    ELSE [status |-> 200, body |-> "OK", dispatched |-> 0]

----------------------------------------------------------------------------
(* Requests the platform can send *)

\* What the outside world does during one request: the first thing to fail, if any.
Inputs == {[net |-> TRUE, download |-> TRUE, asr |-> TRUE],
           [net |-> FALSE, download |-> TRUE, asr |-> TRUE],
           [net |-> TRUE, download |-> FALSE, asr |-> TRUE],
           [net |-> TRUE, download |-> TRUE, asr |-> FALSE]}
Events == [kind : AppEventKinds, sender : Users]
EventSeqs == UNION {[1..n -> Events] : n \in 0..MaxEvents}
Payloads == {[object |-> "null", events |-> <<>>], [object |-> "user", events |-> <<>>]}
            \cup {[object |-> "page", events |-> es] : es \in EventSeqs}

NoExchange == [handler |-> "none", status |-> 0, body |-> None, token |-> None,
               challenge |-> None, signed |-> FALSE, events |-> 0, dispatched |-> 0]

RECURSIVE SumUpTo(_, _)
SumUpTo(f, d) == IF d < 0 THEN 0 ELSE f[d] + SumUpTo(f, d - 1)

\* All usage events stored for a user.
TotalUsage(usage, u) == SumUpTo(usage[u], MaxDay)

\* The monolith's state at the start of a request.
AppState == [users |-> appUsers, usage |-> appUsage, sent |-> <<>>, calls |-> <<>>,
             raised |-> FALSE, dispatched |-> 0,
             incs |-> [u \in Users |-> 0], transcribed |-> [u \in Users |-> 0]]

\* The users' history after a request that ended in state s.
AppHistory(s) ==
    [u \in Users |-> [hist[u] EXCEPT !.incs = @ + s.incs[u],
                                     !.transcribed = @ + s.transcribed[u]]]

----------------------------------------------------------------------------
(* Actions: the web endpoints *)

\* GET /webhook of the package
VerifyWebhook ==
    /\ revision = "verify"
    /\ \E token \in Tokens \cup {None}, challenge \in Challenges \cup {None} :
         LET r == verify_webhook(env.VERIFY_TOKEN, token, challenge)
         IN  http' = [NoExchange EXCEPT !.handler = "routes.verify_webhook", !.status = r.status,
                          !.body = r.body, !.token = token, !.challenge = challenge]
    /\ UNCHANGED <<revision, fn, today, env, appVars, dbVars, hVars, wVars>>

\* POST /webhook of the package
HandleWebhook ==
    /\ revision = "routes"
    /\ \E data \in Payloads, body \in Bodies, sig \in Signatures :
         LET r == routes_handle_webhook(data)
         IN  http' = [NoExchange EXCEPT !.handler = "routes.handle_webhook", !.status = r.status,
                          !.body = r.body, !.events = Len(data.events),
                          !.dispatched = r.dispatched,
                          !.signed = verify_webhook_signature(body, sig, env.APP_SECRET)]
    /\ UNCHANGED <<revision, fn, today, env, appVars, dbVars, hVars, wVars>>

\* GET /webhook of the monolith
AppVerifyWebhook ==
    /\ revision = "verify"
    /\ \E token \in Tokens \cup {None}, challenge \in Challenges \cup {None} :
         LET r == app_verify_webhook(env.VERIFY_TOKEN, token, challenge)
         IN  http' = [NoExchange EXCEPT !.handler = "app.verify_webhook", !.status = r.status,
                          !.body = r.body, !.token = token, !.challenge = challenge]
    /\ UNCHANGED <<revision, fn, today, env, appVars, dbVars, hVars, wVars>>

\* POST /webhook of the monolith: the whole view, every event of the payload.
\* Writes made before an exception stay (no transaction).
AppHandleWebhook ==
    /\ revision = "app"
    /\ \E data \in Payloads, in \in Inputs, body \in Bodies, sig \in Signatures \ {None} :
         LET s == app_handle_webhook(AppState, data, in, today)
         IN  /\ \A u \in Users : TotalUsage(s.usage, u) <= MaxUsage
             /\ appUsers' = s.users
             /\ appUsage' = s.usage
             /\ appSent' = s.sent
             /\ appCalls' = s.calls
             /\ hist' = AppHistory(s)
             /\ http' = [NoExchange EXCEPT
                            !.handler = "app.handle_webhook",
                            !.status = IF s.raised THEN 500 ELSE 200,
                            !.body = IF s.raised THEN "Internal Server Error" ELSE "OK",
                            !.events = Len(data.events),
                            !.dispatched = s.dispatched,
                            !.signed = verify_webhook_signature(body, sig, env.APP_SECRET)]
    /\ UNCHANGED <<revision, fn, today, env, users, transcriptions, retry_info, hVars, wVars>>

\* app.py handle_audio_message, one call: an audio attachment of sender u.
\* An exception (send_message raising) leaves the writes made before it.
AppHandleAudio ==
    /\ revision \in {"audio", "payment"}
    /\ \E u \in Users, in \in Inputs :
         LET s == handle_audio_message(AppState, u, in, today)
         IN  /\ \A v \in Users : TotalUsage(s.usage, v) <= MaxUsage
             /\ appUsers' = s.users
             /\ appUsage' = s.usage
             /\ appSent' = s.sent
             /\ appCalls' = s.calls
             /\ hist' = AppHistory(s)
    /\ UNCHANGED <<revision, fn, today, webVars, users, transcriptions, retry_info,
                   hVars, wVars>>

----------------------------------------------------------------------------
(* The package: services/database.py *)

NoUser == [exists |-> FALSE, daily_usage |-> 0, daily_reset_date |-> 0,
           total_transcriptions |-> 0, is_premium |-> FALSE]

\* What has happened to a user's record: welcomes sent and records created
\* since the start; resets, reads and increments since the last midnight;
\* stale: the record was already there at the last midnight.
NoHist == [welcomes |-> 0, created |-> 0, resets |-> 0, reads |-> 0, incs |-> 0,
           stale |-> FALSE, file |-> "none", transcribed |-> 0]

\* find_one with a filter that matches no document.
find_one_nothing(usrs, u) == NoUser

\* db.users.find_one({"user_id": user_id}): a copy of the stored document.
find_one(usrs, u) == usrs[u]

\* services/database.py Database._reset_daily_usage_if_needed: decides on the
\* copy it was given, writes to the stored document.
NeedsReset(user, day) == user.daily_reset_date # day

_reset_daily_usage_if_needed(usrs, user, u, day) ==
    IF NeedsReset(user, day) /\ usrs[u].exists
    THEN [usrs EXCEPT ![u].daily_usage = 0, ![u].daily_reset_date = day]
    ELSE usrs

\* services/database.py Database.create_user: the inserted document.
create_user(u, day) ==
    [exists |-> TRUE, daily_usage |-> 0, daily_reset_date |-> day,
     total_transcriptions |-> 0, is_premium |-> FALSE]

\* services/database.py Database.increment_usage: one update_one with
\* $inc daily_usage, total_transcriptions and $set daily_reset_date = today.
increment_usage(usrs, u, day) ==
    IF usrs[u].exists
    THEN [usrs EXCEPT ![u].daily_usage = @ + 1,
                      ![u].total_transcriptions = @ + 1,
                      ![u].daily_reset_date = day]
    ELSE usrs

\* Database.__init__ and connect set self.client and self.db; no method gives
\* the object a connection attribute.
HasConnection == FALSE

\* services/database.py Database.store_retry_info: self.connection.cursor()
\* raises AttributeError, caught and logged by the method.
store_retry_info(ri, u) ==
    IF HasConnection THEN [ri EXCEPT ![u] = "info"] ELSE ri

\* services/database.py Database.get_retry_info: None after the same
\* AttributeError.
get_retry_info(ri, u) ==
    IF HasConnection THEN ri[u] ELSE None

\* services/database.py Database.save_transcription: insert_one, nothing else.
save_transcription(trs, u) == [trs EXCEPT ![u] = @ + 1]

----------------------------------------------------------------------------
(* The package: media pipeline *)

AudioExts == {"mp3"}      \* one of AudioProcessor.supported_audio_formats
VideoExts == {"mp4"}      \* one of AudioProcessor.supported_video_formats
Exts == {"tmp", "mp3", "mp4"}

\* services/audio_processor.py AudioProcessor.process_file: None for a missing
\* file and for an extension in neither list; the file itself for audio; the
\* extracted .wav (None when ffmpeg fails) for video.
process_file(exists, ext, ffmpeg) ==
    IF ~exists THEN None
    ELSE IF ext \in AudioExts THEN "same"
    ELSE IF ext \in VideoExts THEN (IF ffmpeg THEN "wav" ELSE None)
    ELSE None

\* services/transcription_service.py TranscriptionService.transcribe_audio is
\* declared async def: a plain call builds a coroutine object and runs none of
\* the body, so no request reaches the ASR API.
transcribe_audio(asr) == [coroutine |-> TRUE, success |-> asr, asr_calls |-> 0]

\* TranscriptionService.transcribe_with_language_detection: result['success']
\* on the coroutine raises TypeError, caught by the method's except clause.
transcribe_with_language_detection(asr) ==
    LET result == transcribe_audio(asr)
    IN  IF result.coroutine
        THEN [success |-> FALSE, asr_calls |-> result.asr_calls]
        ELSE [success |-> result.success, asr_calls |-> result.asr_calls]

\* services/translation_service.py TranslationService.translate_text is async
\* def as well: the callers get a coroutine and no translation request is made.
translate_text == [coroutine |-> TRUE, translate_calls |-> 0]

\* services/media_handler.py MediaHandler.process_media. language_detector has
\* no detect_language_from_filename, so filename_language is None and the
\* auto-detect branch is taken. cleaned: _cleanup_temp_files was reached.
process_media(exists, ext, in) ==
    LET audio_path == process_file(exists, ext, in.ffmpeg)
    IN  IF audio_path = None
        THEN [success |-> FALSE, error |-> "media", asr_calls |-> 0,
              translate_calls |-> 0, cleaned |-> FALSE]
        ELSE LET result == transcribe_with_language_detection(in.asr)
             IN  IF ~result.success
                 THEN [success |-> FALSE, error |-> "transcription",
                       asr_calls |-> result.asr_calls,
                       translate_calls |-> 0, cleaned |-> FALSE]
                 ELSE [success |-> TRUE, error |-> None, asr_calls |-> result.asr_calls,
                       translate_calls |-> translate_text.translate_calls,
                       cleaned |-> TRUE]

\* The dicts process_media builds: the early returns (lines 36-42 and 74-80),
\* the result of a transcription (lines 104-110, temporary files removed at
\* line 127) and the one of its except clause (lines 143-149).
ProcessMediaResults ==
    {[success |-> FALSE, error |-> "media", asr_calls |-> 0, translate_calls |-> 0,
      cleaned |-> FALSE],
     [success |-> FALSE, error |-> "transcription", asr_calls |-> 0, translate_calls |-> 0,
      cleaned |-> FALSE],
     [success |-> TRUE, error |-> None, asr_calls |-> 1, translate_calls |-> 0,
      cleaned |-> TRUE]}

\* services/media_handler.py MediaHandler.validate_file on the file that
\* _download_and_process_media wrote (tempfile, suffix '.tmp'): only the size
\* is looked at.
validate_file(exists, big) == exists /\ ~big

----------------------------------------------------------------------------
(* The package: services/message_handler.py *)

Handlers == {1, 2}         \* handle_message invocations that may be in flight
SeqHandlers == {1}         \* one message at a time
MsgKinds == {"audio", "text", "translate", "unknown", "retry_lang", "retry_other",
             "lang_correct"}
NoSender == 0              \* message_data without sender.id
MediaInputs == [url : BOOLEAN, download : BOOLEAN, big : BOOLEAN,
                ffmpeg : BOOLEAN, asr : BOOLEAN]

\* Locals of one invocation: the message, the user dict get_user returned, the
\* return value, and two facts about the invocation: the UTC day it began on
\* and whether every outside service did its part while it ran.
IdleLocal == [sender |-> NoSender, kind |-> "none", user |-> NoUser, ret |-> "none",
              day |-> 0, ok |-> FALSE, temp |-> "none"]

\* Every outside service does its part: the attachment has a URL, the download
\* succeeds, the file is within the size limit, ffmpeg and the ASR work.
AllOk(in) == in.url /\ in.download /\ ~in.big /\ in.ffmpeg /\ in.asr

\* MessageHandler._check_usage_limits: on the user dict handle_message holds.
\* _check_usage_limits with the comparison off by one.
_check_usage_limits_inclusive(user) ==
    user.daily_usage <= (IF user.is_premium THEN PREMIUM_DAILY_LIMIT ELSE FREE_DAILY_LIMIT)

\* MessageHandler._check_usage_limits, on the user dict get_user returned.
_check_usage_limits(user) ==
    user.daily_usage < (IF user.is_premium THEN PREMIUM_DAILY_LIMIT ELSE FREE_DAILY_LIMIT)

\* One external call, logged with the stored quota position at that moment.
LogCall(log, op, u) ==
    Append(log, [op |-> op, user |-> u, usage |-> users[u].daily_usage,
                 is_premium |-> users[u].is_premium])

\* MessageHandler._download_and_process_media: requests.get, NamedTemporaryFile
\* (suffix '.tmp'), validate_file, process_media.
_download_and_process_media(in) ==
    IF ~in.download
    THEN [success |-> FALSE, error |-> "download", asr_calls |-> 0,
          translate_calls |-> 0, cleaned |-> TRUE]
    ELSE IF ~validate_file(TRUE, in.big)
    THEN [success |-> FALSE, error |-> "invalid", asr_calls |-> 0,
          translate_calls |-> 0, cleaned |-> TRUE]
    ELSE process_media(TRUE, "tmp", in)

\* MessageHandler._handle_translation_request: the reply it sends. hasLast: the
\* user has a stored transcription; target: a language name was found in the
\* text. translate_text(...) is a coroutine, .get on it raises AttributeError,
\* caught by the method's except clause.
_handle_translation_request(hasLast, target) ==
    IF ~hasLast THEN "no_transcription"
    ELSE IF ~target THEN "no_target"
    ELSE IF translate_text.coroutine THEN "translate_error"
    ELSE "translation"

\* MessageHandler._handle_language_retry: the replies it sends. known: the code
\* after RETRY_LANG_ is one of km, th, vi, en; info: what get_retry_info
\* returned. No path of the method starts a transcription.
_handle_language_retry(known, info) ==
    IF ~known THEN <<"unknown_language">>
    ELSE IF info = None THEN <<"no_audio">>
    ELSE <<"retrying", "send_again">>

\* The revisions in which the package's MessageHandler runs.
HandlerRevisions == {"services", "outcomes", "retry", "race"}

\* handle_message, lines 28-38: sender id, then Database.get_user's find_one.
\* With several handlers in flight the message is an attachment or a text.
HReceive(p) ==
    /\ revision \in HandlerRevisions
    /\ pc[p] \in {"idle", "done"}
    /\ \E sender \in Users \cup {NoSender},
          kind \in (IF revision = "race" THEN {"audio", "text"} ELSE MsgKinds) :
         /\ sent' = [sent EXCEPT ![p] = <<>>]
         /\ calls' = [calls EXCEPT ![p] = <<>>]
         /\ IF sender = NoSender
            THEN /\ local' = [local EXCEPT ![p] = [IdleLocal EXCEPT !.kind = kind, !.ret = "False",
                                                                  !.day = today]]
                 /\ pc' = [pc EXCEPT ![p] = "done"]
                 /\ hist' = hist
            ELSE /\ local' = [local EXCEPT ![p] = [sender |-> sender, kind |-> kind,
                                                  user |-> find_one(users, sender),
                                                  ret |-> "none", day |-> today,
                                                  ok |-> FALSE, temp |-> "none"]]
                 /\ pc' = [pc EXCEPT ![p] = IF find_one(users, sender).exists
                                             THEN "reset" ELSE "create"]
                 /\ hist' = [hist EXCEPT ![sender].reads =
                                  IF find_one(users, sender).exists THEN 1 ELSE @]
    /\ UNCHANGED <<revision, fn, today, webVars, appVars, users, transcriptions, retry_info, wVars>>

\* Database.get_user, lines 66-73: lazy reset decided on the copy read before.
HReset(p) ==
    /\ revision \in HandlerRevisions
    /\ pc[p] = "reset"
    /\ LET u == local[p].sender
       IN  /\ users' = _reset_daily_usage_if_needed(users, local[p].user, u, today)
           /\ hist' = [hist EXCEPT ![u].resets =
                            IF NeedsReset(local[p].user, today) /\ users[u].exists
                            THEN @ + 1 ELSE @]
    /\ pc' = [pc EXCEPT ![p] = "check"]
    /\ UNCHANGED <<revision, fn, today, webVars, appVars, transcriptions, retry_info, local, sent, calls, wVars>>

\* insert_one into a users collection without the unique index.
insert_one_no_index(usrs, u) == "inserted"

\* services/database.py Database._create_indexes and create_user's insert_one:
\* the unique index on user_id makes the insert raise DuplicateKeyError when
\* the collection holds a record of the sender.
insert_one(usrs, u) ==
    IF usrs[u].exists THEN "DuplicateKeyError" ELSE "inserted"

\* handle_message, lines 39-42: create_user, welcome, return True. When
\* insert_one raises, create_user re-raises, handle_message's except sends
\* the error message and returns False.
HCreate(p) ==
    /\ revision \in HandlerRevisions
    /\ pc[p] = "create"
    /\ LET u == local[p].sender
       IN  IF insert_one(users, u) = "DuplicateKeyError"
           THEN /\ sent' = [sent EXCEPT ![p] = Append(@, "error")]
                /\ local' = [local EXCEPT ![p].ret = "False"]
                /\ UNCHANGED <<users, hist>>
           ELSE /\ users' = [users EXCEPT ![u] = create_user(u, today)]
                /\ sent' = [sent EXCEPT ![p] = Append(@, "welcome")]
                /\ hist' = [hist EXCEPT ![u].created = @ + 1, ![u].welcomes = @ + 1]
                /\ local' = [local EXCEPT ![p].ret = "True"]
    /\ pc' = [pc EXCEPT ![p] = "done"]
    /\ UNCHANGED <<revision, fn, today, webVars, appVars, transcriptions, retry_info, calls, wVars>>

\* handle_message, lines 44-59: the quota check, then text messages and
\* unknown messages are answered at once, attachments go on to the media step.
HCheck(p) ==
    /\ revision \in HandlerRevisions
    /\ pc[p] = "check"
    /\ LET u == local[p].sender
           k == local[p].kind
       IN  IF ~_check_usage_limits(local[p].user)
           THEN /\ sent' = [sent EXCEPT ![p] = Append(@, "limit_exceeded")]
                /\ local' = [local EXCEPT ![p].ret = "True"]
                /\ pc' = [pc EXCEPT ![p] = "done"]
           ELSE IF k = "audio"
           THEN /\ pc' = [pc EXCEPT ![p] = "media"]
                /\ UNCHANGED <<sent, local>>
           ELSE /\ \E target \in BOOLEAN :
                     sent' = [sent EXCEPT ![p] = @ \o
                                 (IF k = "text" THEN <<"prompt">>
                                  ELSE IF k = "translate"
                                  THEN <<_handle_translation_request(transcriptions[u] > 0, target)>>
                                  ELSE IF k = "retry_lang"
                                  THEN _handle_language_retry(TRUE, get_retry_info(retry_info, u))
                                  ELSE IF k = "retry_other"
                                  THEN _handle_language_retry(FALSE, get_retry_info(retry_info, u))
                                  ELSE IF k = "lang_correct" THEN <<"thanks">>
                                  ELSE <<"unsupported">>)]
                /\ local' = [local EXCEPT ![p].ret = "True"]
                /\ pc' = [pc EXCEPT ![p] = "done"]
    /\ UNCHANGED <<revision, fn, today, webVars, appVars, dbVars, calls, wVars>>

\* The temporary file of _download_and_process_media once the method has
\* returned: never written (no download), removed (os.remove after a failed
\* validation, or process_media reached _cleanup_temp_files) or left on disk.
TempFileAfter(in, r) ==
    IF ~in.download THEN "none"
    ELSE IF r.cleaned THEN "removed"
    ELSE "left"

\* History of a user: the temporary file of the last attachment, kept in the
\* revisions whose properties read it.
LastFile(h, f) ==
    IF revision \in {"outcomes", "retry"} THEN [h EXCEPT !.file = f] ELSE h

\* MessageHandler._process_media_attachment, the whole method, r being what
\* _download_and_process_media returned. buttons:
\* _should_show_language_correction_buttons; asian: _send_translation_offer
\* finds an Asian language and a user language of en or ru.
_process_media_attachment(p, in, r, buttons, asian) ==
    LET u == local[p].sender
        log1 == LogCall(calls[p], "download", u)
        log2 == IF r.asr_calls > 0 THEN LogCall(log1, "asr", u) ELSE log1
        log3 == IF r.translate_calls > 0 THEN LogCall(log2, "translate", u) ELSE log2
    IN  /\ IF ~in.url
           THEN /\ sent' = [sent EXCEPT ![p] = @ \o <<"processing", "no_file">>]
                /\ local' = [local EXCEPT ![p].ret = "False", ![p].ok = AllOk(in)]
                /\ UNCHANGED <<users, transcriptions, calls, hist, retry_info>>
           ELSE IF ~r.success
           THEN /\ sent' = [sent EXCEPT ![p] = @ \o <<"processing", "error_" \o r.error>>]
                /\ calls' = [calls EXCEPT ![p] = log3]
                /\ local' = [local EXCEPT ![p].ret = "False", ![p].ok = AllOk(in),
                                          ![p].temp = TempFileAfter(in, r)]
                /\ hist' = [hist EXCEPT ![u] = LastFile(@, TempFileAfter(in, r))]
                /\ UNCHANGED <<users, transcriptions, retry_info>>
           ELSE /\ transcriptions' = save_transcription(transcriptions, u)
                /\ users' = increment_usage(users, u, today)
                /\ hist' = [hist EXCEPT ![u] = LastFile([@ EXCEPT !.incs = @ + 1],
                                                         TempFileAfter(in, r))]
                /\ retry_info' = IF buttons THEN store_retry_info(retry_info, u)
                                 ELSE retry_info
                /\ sent' = [sent EXCEPT ![p] = @ \o <<"processing", "transcript">>
                                 \o (IF buttons THEN <<"language_buttons">> ELSE <<>>)
                                 \o (IF asian THEN <<"translation_offer">> ELSE <<>>)]
                /\ calls' = [calls EXCEPT ![p] = log3]
                /\ local' = [local EXCEPT ![p].ret = "True", ![p].ok = AllOk(in),
                                          ![p].temp = TempFileAfter(in, r)]
        /\ pc' = [pc EXCEPT ![p] = "done"]

\* The attachment step with the MediaHandler of this package.
HMedia(p) ==
    /\ revision \in {"services", "retry"}
    /\ pc[p] = "media"
    /\ \E in \in MediaInputs, buttons \in BOOLEAN, asian \in BOOLEAN :
         _process_media_attachment(p, in, _download_and_process_media(in), buttons, asian)
    /\ UNCHANGED <<revision, fn, today, webVars, appVars, wVars>>

\* The attachment step for each result MediaHandler.process_media can build,
\* the download and the validation having passed.
HMediaResult(p) ==
    /\ revision \in {"outcomes", "race"}
    /\ pc[p] = "media"
    /\ \E in \in {i \in MediaInputs : i.url /\ i.download /\ ~i.big /\ i.ffmpeg /\ i.asr},
          r \in ProcessMediaResults, buttons \in BOOLEAN, asian \in BOOLEAN :
         _process_media_attachment(p, in, r, buttons, asian)
    /\ UNCHANGED <<revision, fn, today, webVars, appVars, wVars>>

\* _send_text_message letting the exception of requests.post through.
_send_text_message_uncaught(net) == IF net THEN "True" ELSE "raised"

\* MessageHandler._send_text_message: True when the Graph API took the
\* message; RequestException and every other Exception are caught, False.
_send_text_message(net) == IF net THEN "True" ELSE "False"

\* handle_message's except clause, entered from a step of the handler in which
\* the database, the download, the ASR or anything else raised:
\* _send_error_message, then return False.
HRaise(p) ==
    /\ revision = "race"
    /\ pc[p] \in {"reset", "create", "check", "media"}
    /\ \E net \in BOOLEAN :
         LET r == _send_text_message(net)
         IN  /\ sent' = [sent EXCEPT ![p] = IF r = "True" THEN Append(@, "error") ELSE @]
             /\ local' = [local EXCEPT ![p].ret = IF r = "raised" THEN "raised" ELSE "False"]
    /\ pc' = [pc EXCEPT ![p] = "done"]
    /\ UNCHANGED <<revision, fn, today, webVars, appVars, dbVars, calls, wVars>>

\* handle_message on an event that is not a dict of dicts: message_data.get
\* raises before sender_id is bound, the except clause calls
\* _send_error_message(None), which sends nothing, and returns False.
HMalformed(p) ==
    /\ revision = "race"
    /\ pc[p] \in {"idle", "done"}
    /\ sent' = [sent EXCEPT ![p] = <<>>]
    /\ calls' = [calls EXCEPT ![p] = <<>>]
    /\ local' = [local EXCEPT ![p] = [IdleLocal EXCEPT !.kind = "malformed", !.ret = "False",
                                                         !.day = today]]
    /\ pc' = [pc EXCEPT ![p] = "done"]
    /\ UNCHANGED <<revision, fn, today, webVars, appVars, dbVars, wVars>>

----------------------------------------------------------------------------
(* The monolith: payment.py *)

\* os.getenv('PAYMENT_METHOD', 'paypal')
PaymentMethods == {"paypal", "2checkout"}
SUBSCRIPTION_DAYS == 30                       \* timedelta(days=30)

\* PaymentService.verify_paypal_webhook: builds the expected string, reads
\* the Paypal-Transmission-Sig header and returns True whatever they are.
\* webhook_id is set by __init__ only for the paypal method: AttributeError
\* otherwise.
verify_paypal_webhook(method, genuine) ==
    IF method # "paypal" THEN "AttributeError" ELSE "True"

\* PaymentService.process_paypal_webhook: the action for the event type.
process_paypal_webhook(event_type, u, day) ==
    IF event_type = "BILLING.SUBSCRIPTION.CREATED"
    THEN [action |-> "subscription_created", user_id |-> u, end_date |-> NoEnd]
    ELSE IF event_type = "BILLING.SUBSCRIPTION.ACTIVATED"
    THEN [action |-> "subscription_activated", user_id |-> u,
          end_date |-> day + SUBSCRIPTION_DAYS]
    ELSE IF event_type = "BILLING.SUBSCRIPTION.CANCELLED"
    THEN [action |-> "subscription_cancelled", user_id |-> u, end_date |-> NoEnd]
    ELSE IF event_type = "PAYMENT.SALE.COMPLETED"
    THEN [action |-> "payment_completed", user_id |-> u, end_date |-> NoEnd]
    ELSE [action |-> None, user_id |-> u, end_date |-> NoEnd]

\* PaymentService.process_2checkout_ipn: the MD5 of secret, vendor, order
\* number and total against data['key'], then credit_card_processed == 'Y'.
\* secret_key and merchant_code are set by __init__ only for the 2checkout
\* method: AttributeError otherwise.
process_2checkout_ipn(method, genuine, processed, u) ==
    IF method # "2checkout" THEN [action |-> "AttributeError", user_id |-> u]
    ELSE IF ~genuine THEN [action |-> None, user_id |-> u]
    ELSE IF processed THEN [action |-> "payment_completed", user_id |-> u]
    ELSE [action |-> None, user_id |-> u]

\* payment.py paypal_webhook. fn: the notifications served so far and the
\* last one, its route, whether its signature was genuine, and the status of
\* the answer.
PaypalWebhook ==
    /\ revision = "payment"
    /\ fn.seq < MaxNotifications
    /\ \E method \in PaymentMethods, genuine \in BOOLEAN, u \in Users,
          ev \in {"BILLING.SUBSCRIPTION.CREATED", "BILLING.SUBSCRIPTION.ACTIVATED",
                  "BILLING.SUBSCRIPTION.CANCELLED", "PAYMENT.SALE.COMPLETED", "other"} :
         LET verified == verify_paypal_webhook(method, genuine)
             result == process_paypal_webhook(ev, u, today)
         IN  /\ appUsers' =
                   IF verified # "True" THEN appUsers
                   ELSE IF result.action = "subscription_activated"
                   THEN update_subscription(appUsers, result.user_id, "premium", result.end_date)
                   ELSE IF result.action = "subscription_cancelled"
                   THEN update_subscription(appUsers, result.user_id, "free", NoEnd)
                   ELSE appUsers
             /\ fn' = [name |-> "paypal_webhook", seq |-> fn.seq + 1, genuine |-> genuine,
                       status |-> IF verified = "True" THEN 200
                                  ELSE IF verified = "False" THEN 401 ELSE 500]
    /\ UNCHANGED <<revision, today, webVars, appUsage, appSent, appCalls, dbVars, hVars, wVars>>

\* payment.py twocheckout_ipn
TwocheckoutIpn ==
    /\ revision = "payment"
    /\ fn.seq < MaxNotifications
    /\ \E method \in PaymentMethods, genuine \in BOOLEAN, processed \in BOOLEAN, u \in Users :
         LET result == process_2checkout_ipn(method, genuine, processed, u)
         IN  /\ appUsers' =
                   IF result.action = "payment_completed"
                   THEN update_subscription(appUsers, result.user_id, "premium",
                                            today + SUBSCRIPTION_DAYS)
                   ELSE appUsers
             /\ fn' = [name |-> "twocheckout_ipn", seq |-> fn.seq + 1, genuine |-> genuine,
                       status |-> IF result.action = "AttributeError" THEN 500 ELSE 200]
    /\ UNCHANGED <<revision, today, webVars, appUsage, appSent, appCalls, dbVars, hVars, wVars>>

----------------------------------------------------------------------------
(* services/database.py called directly, one whole call per step *)

\* Database.get_user: find_one, lazy reset, last_seen.
DbGetUser(u) ==
    /\ revision = "db"
    /\ users[u].exists
    /\ users' = _reset_daily_usage_if_needed(users, find_one(users, u), u, today)
    /\ hist' = [hist EXCEPT ![u].reads = 1,
                            ![u].resets = IF NeedsReset(find_one(users, u), today)
                                          THEN @ + 1 ELSE @]
    /\ UNCHANGED <<revision, fn, today, webVars, appVars, transcriptions, retry_info, hVars, wVars>>

\* Database.create_user
DbCreateUser(u) ==
    /\ revision = "db"
    /\ ~users[u].exists
    /\ users' = [users EXCEPT ![u] = create_user(u, today)]
    /\ hist' = [hist EXCEPT ![u].created = @ + 1]
    /\ UNCHANGED <<revision, fn, today, webVars, appVars, transcriptions, retry_info, hVars, wVars>>

\* Database.increment_usage
DbIncrementUsage(u) ==
    /\ revision = "db"
    /\ users[u].exists
    /\ users[u].total_transcriptions < MaxUsage
    /\ users' = increment_usage(users, u, today)
    /\ hist' = [hist EXCEPT ![u].incs = @ + 1]
    /\ UNCHANGED <<revision, fn, today, webVars, appVars, transcriptions, retry_info, hVars, wVars>>

----------------------------------------------------------------------------
(* celery_worker.py *)

\* Task.retry(exc=exc) of Celery, as process_media_task uses it: while
\* request.retries < max_retries it raises Retry and the job is queued again;
\* after that it re-raises exc itself; MaxRetriesExceededError is raised only
\* when no exc is passed.
TaskRetry(retries, exc) ==
    IF retries < max_retries THEN "Retry"
    ELSE IF exc # None THEN exc
    ELSE "MaxRetriesExceededError"

\* The arguments of a job: sender_id, file_path (its extension, and whether the
\* file is on the shared disk) and user_preferences (its preferred_language);
\* init: the module-level initialisation of the worker succeeded.
Languages == {"auto", "en"}

Jobs == [sender : Users, ext : Exts, exists : BOOLEAN, prefs : Languages, init : BOOLEAN]

\* exc: the exception the last attempt ended with, as the result backend keeps it.
NewTask(job) == [state |-> "queued", retries |-> 0, attempts |-> 0, sender |-> job.sender,
                 ext |-> job.ext, exists |-> job.exists, prefs |-> job.prefs,
                 init |-> job.init, exc |-> None, result |-> None]

\* Keys of the dict process_media returns on success (media_handler.py lines
\* 104-110) and the keyword parameters Database.save_transcription takes.
ResultKeys == {"success", "transcription", "detected_language", "translation",
               "language_info"}
SaveTranscriptionParams == {"user_id", "transcription", "detected_language", "file_type",
                            "translation"}

\* database.save_transcription(user_id=sender_id, **result): an unexpected
\* keyword argument is a TypeError, raised before the method body runs.
SaveTranscriptionCall(keys) ==
    IF keys \subseteq SaveTranscriptionParams THEN "saved" ELSE "TypeError"

\* A job is put on the queue.
WorkerEnqueue ==
    /\ revision = "worker"
    /\ task.state \in {"success", "failure"}
    /\ \E job \in Jobs : job.init = task.init /\ task' = NewTask(job)
    /\ wSent' = <<>>
    /\ UNCHANGED <<revision, fn, today, webVars, appVars, dbVars, hVars>>

\* One attempt of process_media_task, the finally block included. raises: an
\* exception leaves the try body and is caught by "except Exception as exc",
\* which calls self.retry(exc=exc) and sends the 'failed after several
\* attempts' notice on MaxRetriesExceededError. When the module-level initialisation failed,
\* media_handler is None and PAGE_ACCESS_TOKEN was never bound: the
\* "not initialized" reply dies in send_messenger_message with NameError.
\* A successful result reaches database.save_transcription(user_id=..., **result),
\* a TypeError for the keys save_transcription does not take.
process_media_task(r, raises) ==
    LET started == [task EXCEPT !.attempts = @ + 1,
                                !.result = IF raises THEN "raised"
                                           ELSE IF r.success THEN "success" ELSE "failure"]
        retried(exc) == IF TaskRetry(task.retries, exc) = "Retry"
                        THEN [started EXCEPT !.state = "retry", !.retries = @ + 1,
                                             !.exists = FALSE, !.exc = exc]
                        ELSE IF TaskRetry(task.retries, exc) = "MaxRetriesExceededError"
                        THEN [started EXCEPT !.state = "success", !.exists = FALSE,
                                             !.exc = None]
                        ELSE [started EXCEPT !.state = "failure", !.exists = FALSE,
                                             !.exc = exc]
        notice(exc) == IF TaskRetry(task.retries, exc) = "MaxRetriesExceededError"
                       THEN <<"gave_up">> ELSE <<>>
        u == task.sender
    IN  IF ~task.init
        THEN /\ task' = [task EXCEPT !.attempts = @ + 1, !.state = "failure",
                                     !.exc = "NameError"]
             /\ UNCHANGED <<wSent, users, transcriptions, retry_info, hist>>
        ELSE IF raises
        THEN /\ task' = retried("Exception")
             /\ wSent' = wSent \o notice("Exception")
             /\ UNCHANGED <<users, transcriptions, retry_info, hist>>
        ELSE IF r.success
        THEN IF SaveTranscriptionCall(ResultKeys) = "saved"
             THEN /\ task' = [started EXCEPT !.state = "success", !.exists = FALSE,
                                             !.exc = None]
                  /\ wSent' = Append(wSent, "transcript")
                  /\ transcriptions' = save_transcription(transcriptions, u)
                  /\ users' = increment_usage(users, u, today)
                  /\ hist' = [hist EXCEPT ![u].incs = @ + 1]
             ELSE /\ task' = retried("TypeError")
                  /\ wSent' = Append(wSent, "transcript") \o notice("TypeError")
                  /\ UNCHANGED <<users, transcriptions, retry_info, hist>>
        ELSE /\ task' = [started EXCEPT !.state = "success", !.exists = FALSE,
                                        !.exc = None]
             /\ wSent' = Append(wSent, "failed_" \o r.error)
             /\ UNCHANGED <<users, transcriptions, retry_info, hist>>

\* One attempt of a job by the worker as deployed: media_handler is the
\* MediaHandler of this package.
WorkerRun ==
    /\ revision = "worker"
    /\ task.state \in {"queued", "retry"}
    /\ \E raises \in BOOLEAN, in \in MediaInputs :
         process_media_task(process_media(task.exists, task.ext, in), raises)
    /\ UNCHANGED <<revision, fn, today, webVars, appVars, hVars>>

\* One attempt of a job, for whatever process_media returned.
WorkerRunResult ==
    /\ revision = "task"
    /\ task.state \in {"queued", "retry"}
    /\ \E raises \in BOOLEAN, r \in ProcessMediaResults : process_media_task(r, raises)
    /\ UNCHANGED <<revision, fn, today, webVars, appVars, hVars>>

----------------------------------------------------------------------------
(* Initial states *)

\* No function of the services is being called on its own.
IdleFn == fn = [name |-> "none"]

IdleWeb == /\ env = [VERIFY_TOKEN |-> None, APP_SECRET |-> None]
           /\ http = NoExchange

IdleApp == /\ appUsers = [u \in Users |-> NoAppUser]
           /\ appUsage = [u \in Users |-> [d \in Days |-> 0]]
           /\ appSent = <<>>
           /\ appCalls = <<>>

IdleDb == /\ users = [u \in Users |-> NoUser]
          /\ transcriptions = [u \in Users |-> 0]
          /\ hist = [u \in Users |-> NoHist]
    /\ retry_info = [u \in Users |-> None]

IdleHandlers == /\ pc = [p \in Handlers |-> "idle"]
                /\ local = [p \in Handlers |-> IdleLocal]
                /\ sent = [p \in Handlers |-> <<>>]
                /\ calls = [p \in Handlers |-> <<>>]

IdleWorker == /\ task = [NewTask([sender |-> 1, ext |-> "tmp", exists |-> FALSE,
                                  prefs |-> "auto", init |-> TRUE])
                            EXCEPT !.state = "success"]
              /\ wSent = <<>>

\* GET /webhook of either revision: VERIFY_TOKEN set or not.
InitVerify ==
    /\ revision = "verify"
    /\ IdleFn
    /\ today = 0
    /\ env \in [VERIFY_TOKEN : Tokens \cup {None}, APP_SECRET : Secrets \cup {None}]
    /\ http = NoExchange
    /\ IdleApp /\ IdleDb /\ IdleHandlers /\ IdleWorker

\* POST /webhook of the package: APP_SECRET set or not.
InitRoutes ==
    /\ revision = "routes"
    /\ IdleFn
    /\ today = 0
    /\ env \in [VERIFY_TOKEN : {None}, APP_SECRET : Secrets \cup {None}]
    /\ http = NoExchange
    /\ IdleApp /\ IdleDb /\ IdleHandlers /\ IdleWorker

\* POST /webhook of the monolith, APP_SECRET set: users not seen yet, or made
\* premium by update_subscription.
InitApp ==
    /\ revision = "app"
    /\ IdleFn
    /\ today = 0
    /\ env \in [VERIFY_TOKEN : {None}, APP_SECRET : Secrets]
    /\ http = NoExchange
    /\ appUsers \in [Users -> {NoAppUser, [NoAppUser EXCEPT !.exists = TRUE,
                                                           !.subscription_type = "premium"]}]
    /\ appUsage = [u \in Users |-> [d \in Days |-> 0]]
    /\ appSent = <<>>
    /\ appCalls = <<>>
    /\ IdleDb /\ IdleHandlers /\ IdleWorker

\* Documents the users collection can hold at the start of a day: written by
\* create_user, increment_usage and set_premium_status.
StoredUsers == {NoUser} \cup
               {[exists |-> TRUE, daily_usage |-> n, daily_reset_date |-> 0,
                 total_transcriptions |-> n, is_premium |-> b] :
                    n \in 0..PREMIUM_DAILY_LIMIT, b \in BOOLEAN}

\* handle_audio_message of the monolith called on its own.
InitAudio ==
    /\ revision = "audio"
    /\ IdleFn
    /\ today = 0
    /\ appUsers \in [Users -> {NoAppUser, [NoAppUser EXCEPT !.exists = TRUE,
                                                           !.subscription_type = "premium"]}]
    /\ appUsage = [u \in Users |-> [d \in Days |-> 0]]
    /\ appSent = <<>>
    /\ appCalls = <<>>
    /\ IdleWeb /\ IdleDb /\ IdleHandlers /\ IdleWorker

\* MessageHandler on a database with some users.
InitServices ==
    /\ revision = "services"
    /\ IdleFn
    /\ today = 0
    /\ users \in [Users -> StoredUsers]
    /\ transcriptions = [u \in Users |-> users[u].total_transcriptions]
    /\ hist = [u \in Users |-> NoHist]
    /\ retry_info = [u \in Users |-> None]
    /\ IdleWeb /\ IdleApp /\ IdleHandlers /\ IdleWorker

\* The MessageHandler with users already stored, for every result of
\* process_media.
InitOutcomes ==
    /\ revision = "outcomes"
    /\ IdleFn
    /\ today = 0
    /\ users \in [Users -> StoredUsers \ {NoUser}]
    /\ transcriptions = [u \in Users |-> users[u].total_transcriptions]
    /\ hist = [u \in Users |-> NoHist]
    /\ retry_info = [u \in Users |-> None]
    /\ IdleWeb /\ IdleApp /\ IdleHandlers /\ IdleWorker

\* The MessageHandler of this package with every user stored and unused.
InitRetry ==
    /\ revision = "retry"
    /\ IdleFn
    /\ today = 0
    /\ users = [u \in Users |-> create_user(u, today)]
    /\ transcriptions = [u \in Users |-> 0]
    /\ hist = [u \in Users |-> NoHist]
    /\ retry_info = [u \in Users |-> None]
    /\ IdleWeb /\ IdleApp /\ IdleHandlers /\ IdleWorker

\* The MessageHandler of this package serving several messages at a time,
\* on an empty database.
InitRace ==
    /\ revision = "race"
    /\ IdleFn
    /\ today = 0
    /\ users = [u \in Users |-> NoUser]
    /\ transcriptions = [u \in Users |-> 0]
    /\ hist = [u \in Users |-> NoHist]
    /\ retry_info = [u \in Users |-> None]
    /\ IdleWeb /\ IdleApp /\ IdleHandlers /\ IdleWorker

\* The monolith with its payment routes: users unknown, free, or premium with
\* no end date or one that passes at the first midnight.
InitPayment ==
    /\ revision = "payment"
    /\ fn = [name |-> "none", seq |-> 0, genuine |-> FALSE, status |-> 0]
    /\ today = 0
    /\ appUsers \in [Users -> {NoAppUser, [NoAppUser EXCEPT !.exists = TRUE]}
                             \cup {[NoAppUser EXCEPT !.exists = TRUE,
                                                     !.subscription_type = "premium",
                                                     !.subscription_end = e] : e \in {NoEnd, 0}}]
    /\ appUsage = [u \in Users |-> [d \in Days |-> 0]]
    /\ appSent = <<>>
    /\ appCalls = <<>>
    /\ IdleWeb /\ IdleDb /\ IdleHandlers /\ IdleWorker

\* The Database class on an empty database.
InitDb ==
    /\ revision = "db"
    /\ IdleFn
    /\ today = 0
    /\ IdleWeb /\ IdleApp /\ IdleDb /\ IdleHandlers /\ IdleWorker

\* The Celery worker with one job queued.
InitWorker ==
    /\ revision = "worker"
    /\ IdleFn
    /\ today = 0
    /\ \E job \in Jobs : task = NewTask(job)
    /\ wSent = <<>>
    /\ IdleWeb /\ IdleApp /\ IdleDb /\ IdleHandlers

\* The task body on its own, one job queued, every sender with a record.
InitTask ==
    /\ revision = "task"
    /\ IdleFn
    /\ today = 0
    /\ \E job \in Jobs : task = NewTask(job)
    /\ wSent = <<>>
    /\ users = [u \in Users |-> create_user(u, today)]
    /\ transcriptions = [u \in Users |-> 0]
    /\ hist = [u \in Users |-> NoHist]
    /\ retry_info = [u \in Users |-> None]
    /\ IdleWeb /\ IdleApp /\ IdleHandlers

----------------------------------------------------------------------------
(* Specifications *)

\* UTC midnight
Midnight ==
    /\ revision \in {"app", "audio", "services", "db", "payment"}
    /\ today < MaxDay
    /\ today' = today + 1
    /\ hist' = [u \in Users |-> [hist[u] EXCEPT !.resets = 0, !.reads = 0, !.incs = 0,
                                                !.transcribed = 0,
                                                !.stale = users[u].exists]]
    /\ UNCHANGED <<revision, fn, env, http, appVars, users, transcriptions, retry_info, hVars, wVars>>

----------------------------------------------------------------------------
(* services/native_script_service.py: NativeScriptService *)

\* script_ranges: the Unicode blocks the service tells apart.
Scripts == {"khmer", "thai", "chinese", "hiragana", "katakana", "hangul",
            "hangul_jamo", "vietnamese"}

\* What _count_script_characters makes of one character: a letter of one of
\* the blocks, a letter a-z, another letter, or no letter (char.isalpha()
\* false).
CharClasses == Scripts \cup {"latin", "other", "nonalpha"}

\* A text, as the number of its characters of each class; the analysis reads
\* nothing else of it but the words _has_vietnamese_words looks for.
NoText == [c \in CharClasses |-> 0]

RECURSIVE TextsOfLen(_)
TextsOfLen(n) ==
    IF n = 0 THEN {NoText}
    ELSE {[t EXCEPT ![c] = @ + 1] : t \in TextsOfLen(n - 1), c \in CharClasses}

Texts == UNION {TextsOfLen(n) : n \in 0..MaxChars}

RECURSIVE SumOver(_, _)
SumOver(f, S) ==
    IF S = {} THEN 0
    ELSE LET c == CHOOSE x \in S : TRUE IN f[c] + SumOver(f, S \ {c})

\* len(text)
TextLen(t) == SumOver(t, CharClasses)

\* NativeScriptService._count_script_characters
_count_script_characters(t) == [c \in CharClasses \ {"nonalpha"} |-> t[c]]

\* The threshold chain of _analyze_khmer_quality, _analyze_thai_quality,
\* _analyze_chinese_quality, _analyze_japanese_quality and
\* _analyze_korean_quality on ratio = native / total_alpha:
\* >= 0.8, >= 0.5, >= 0.2, else.
_analyze_quality(native, script_counts) ==
    LET total_alpha == SumOver(script_counts, DOMAIN script_counts)
    IN  IF total_alpha = 0
        THEN [native_ratio |-> [num |-> 0, den |-> 1], quality |-> "empty"]
        ELSE [native_ratio |-> [num |-> native, den |-> total_alpha],
              quality |-> IF 5 * native >= 4 * total_alpha THEN "excellent"
                          ELSE IF 2 * native >= total_alpha THEN "good"
                          ELSE IF 5 * native >= total_alpha THEN "mixed"
                          ELSE "poor"]

_analyze_khmer_quality(script_counts) ==
    _analyze_quality(script_counts.khmer, script_counts)

_analyze_thai_quality(script_counts) ==
    _analyze_quality(script_counts.thai, script_counts)

_analyze_chinese_quality(script_counts) ==
    _analyze_quality(script_counts.chinese, script_counts)

_analyze_japanese_quality(script_counts) ==
    _analyze_quality(script_counts.hiragana + script_counts.katakana
                        + script_counts.chinese, script_counts)

_analyze_korean_quality(script_counts) ==
    _analyze_quality(script_counts.hangul + script_counts.hangul_jamo, script_counts)

\* _analyze_vietnamese_quality: the ratio is taken over len(text), excellent
\* from 0.1 on, then good if _has_vietnamese_words (words) and there is a
\* Latin letter, else poor.
_analyze_vietnamese_quality(t, script_counts, words) ==
    LET vietnamese_diacritics == t.vietnamese
    IN  [native_ratio |-> [num |-> vietnamese_diacritics, den |-> TextLen(t)],
         quality |-> IF 10 * vietnamese_diacritics >= TextLen(t) THEN "excellent"
                     ELSE IF script_counts.latin > 0 /\ words THEN "good"
                     ELSE "poor"]

ScriptLanguages == {"km", "th", "zh", "ja", "ko", "vi"}
ExpectedLanguages == ScriptLanguages \cup {"en"}

\* NativeScriptService.analyze_script_quality: native_ratio and quality of the
\* dict it returns.
analyze_script_quality(t, expected_language, words) ==
    LET script_counts == _count_script_characters(t)
    IN  IF TextLen(t) = 0
        THEN [native_ratio |-> [num |-> 0, den |-> 1], quality |-> "empty"]
        ELSE CASE expected_language = "km" -> _analyze_khmer_quality(script_counts)
               [] expected_language = "th" -> _analyze_thai_quality(script_counts)
               [] expected_language = "zh" -> _analyze_chinese_quality(script_counts)
               [] expected_language = "ja" -> _analyze_japanese_quality(script_counts)
               [] expected_language = "ko" -> _analyze_korean_quality(script_counts)
               [] expected_language = "vi" ->
                      _analyze_vietnamese_quality(t, script_counts, words)
               [] OTHER -> [native_ratio |-> [num |-> 0, den |-> 1], quality |-> "poor"]

\* The dict before the call has returned.
NoAnalysis == [native_ratio |-> [num |-> 0, den |-> 1], quality |-> "none"]

\* analyze_script_quality is called and returns.
AnalyzeScriptQuality ==
    /\ revision = "script"
    /\ ~fn.done
    /\ fn' = [fn EXCEPT !.done = TRUE,
                        !.result = analyze_script_quality(fn.text, fn.expected_language,
                                                          fn.words)]
    /\ UNCHANGED <<revision, today, webVars, appVars, dbVars, hVars, wVars>>

\* Everything but the function called on its own is at rest.
IdleServices == today = 0 /\ IdleWeb /\ IdleApp /\ IdleDb /\ IdleHandlers /\ IdleWorker

\* analyze_script_quality about to be called; the words _has_vietnamese_words
\* looks for have at least three Latin letters.
InitScript ==
    /\ revision = "script"
    /\ fn \in {[name |-> "analyze_script_quality", text |-> t, expected_language |-> l,
                 words |-> w, done |-> FALSE, result |-> NoAnalysis] :
                    t \in Texts, l \in ExpectedLanguages,
                    w \in {FALSE}} \cup
               {[name |-> "analyze_script_quality", text |-> t, expected_language |-> "vi",
                 words |-> TRUE, done |-> FALSE, result |-> NoAnalysis] :
                    t \in {x \in Texts : x.latin >= 3}}
    /\ IdleServices

\* The script analysis
SpecScript == InitScript /\ [][AnalyzeScriptQuality]_vars

----------------------------------------------------------------------------
(* services/media_handler.py: the language process_media reports *)

\* A transcript, as _detect_khmer_language reads it: len(text_lower.split()),
\* the number of khmer_keywords found in it, whether one of cambodian_places
\* and whether one of khmer_phrases is found. A keyword is looked for as a
\* substring, so one word can hold several; a phrase is two words with a
\* keyword among them.
TranscriptTexts ==
    {t \in [total_words : 0..MaxWords, khmer_word_count : 0..MaxKeywords,
            place : BOOLEAN, phrase : BOOLEAN] :
        /\ t.total_words = 0 => (t.khmer_word_count = 0 /\ ~t.place)
        /\ t.phrase => (t.khmer_word_count >= 1 /\ t.total_words >= 2)}

\* MediaHandler._detect_khmer_language with the ratio compared to one half.
_detect_khmer_language_half(transcription, detected_language) ==
    IF transcription.total_words = 0 THEN detected_language
    ELSE IF 2 * transcription.khmer_word_count > transcription.total_words THEN "km"
    ELSE IF transcription.place THEN "km"
    ELSE IF transcription.phrase THEN "km"
    ELSE detected_language

\* MediaHandler._detect_khmer_language: khmer_ratio > 0.10, then the place
\* names, then the phrases.
_detect_khmer_language(transcription, detected_language) ==
    IF transcription.total_words = 0 THEN detected_language
    ELSE IF 10 * transcription.khmer_word_count > transcription.total_words THEN "km"
    ELSE IF transcription.place THEN "km"
    ELSE IF transcription.phrase THEN "km"
    ELSE detected_language

\* The language in the dict of the transcription service: the hint or 'auto'
\* from transcribe_audio, langdetect's answer or 'unknown' from
\* transcribe_with_language_detection.
DetectedLanguages == {"auto", "unknown", "en", "km"}

\* The dicts the bodies of transcribe_audio and
\* transcribe_with_language_detection build.
TranscriptionResults ==
    {[success |-> TRUE, text |-> t, detected_language |-> l] :
        t \in TranscriptTexts, l \in DetectedLanguages}
    \cup {[success |-> FALSE,
           text |-> [total_words |-> 0, khmer_word_count |-> 0, place |-> FALSE,
                     phrase |-> FALSE],
           detected_language |-> "unknown"]}

\* MediaHandler.process_media, steps 3 to 6, on the dict the transcription
\* service returned: success and detected_language of its own result. Step 5
\* changes nothing: analyze_language returns a dict of four or five keys, so
\* unpacking it into (text_language, confidence) raises ValueError, caught
\* and logged.
process_media_language(result) ==
    IF ~result.success
    THEN [success |-> FALSE, detected_language |-> "unknown"]
    ELSE [success |-> TRUE,
          detected_language |-> _detect_khmer_language(result.text,
                                                       result.detected_language)]

\* What the callers of process_media pass as target_language: the dict of
\* MessageHandler._get_user_preferences (message_handler.py line 244), the
\* user_preferences argument of the task (celery_worker.py line 89), or
\* nothing.
UserPreferences ==
    {[given |-> TRUE, auto_translate |-> a, target_language |-> t] :
        a \in BOOLEAN, t \in {"en", "km"}}
    \cup {[given |-> FALSE, auto_translate |-> FALSE, target_language |-> "en"]}

\* MediaHandler.process_media, step 7: whether translate_text is called.
\* `target_language and target_language != detected_language` on a dict: a
\* dict with keys is true, and a dict is never equal to a str. No key of the
\* dict is read.
process_media_translation(detected_language, target_language) ==
    LET truthy == target_language.given
        differs == TRUE
    IN  truthy /\ differs

\* process_media goes on from the transcription service's answer.
ProcessMediaLanguage ==
    /\ revision = "detect"
    /\ ~fn.done
    /\ LET r == process_media_language(fn.result)
       IN  fn' = [fn EXCEPT !.done = TRUE,
                            !.out = [success |-> r.success,
                                     detected_language |-> r.detected_language,
                                     translate_text |->
                                        r.success /\ process_media_translation(
                                            r.detected_language, fn.target_language)]]
    /\ UNCHANGED <<revision, today, webVars, appVars, dbVars, hVars, wVars>>

\* process_media has the answer of the transcription service in hand.
InitDetect ==
    /\ revision = "detect"
    /\ fn \in {[name |-> "process_media", result |-> r, target_language |-> t,
                 done |-> FALSE,
                 out |-> [success |-> FALSE, detected_language |-> "unknown",
                          translate_text |-> FALSE]] :
                    r \in TranscriptionResults, t \in UserPreferences}
    /\ IdleServices

\* The language process_media reports
SpecDetect == InitDetect /\ [][ProcessMediaLanguage]_vars

----------------------------------------------------------------------------
(* services/transcription_service.py: transcribe_with_fallback *)

\* What one request to the ASR API comes to: it raises, it returns an empty
\* text, a text of letters with less than a tenth of them Khmer, a text with
\* Khmer letters, or a text without letters.
AsrOutcomes == {"fail", "empty", "latin", "khmer", "digits"}

\* Outcomes drawn for one invocation, one per request it may make.
MaxAsrCalls == 3

\* TranscriptionService._transcribe_sync: one request, the dict it returns.
_transcribe_sync(outcome, language_hint) ==
    [success |-> outcome # "fail",
     text |-> IF outcome \in {"fail", "empty"} THEN "" ELSE outcome,
     detected_language |-> IF language_hint # None THEN language_hint ELSE "auto"]

\* result['success'] and result['text'].strip()
HasText(result) == result.success /\ result.text # ""

\* TranscriptionService.transcribe_with_fallback: the pair it returns and the
\* number of requests it made, outcomes[i] being what the i-th request comes
\* to. langdetect: the language is whatever langdetect makes of the text.
transcribe_with_fallback(language, outcomes) ==
    LET first == _transcribe_sync(outcomes[1], language)
    IN  IF language = "km" /\ HasText(first)
        THEN [text |-> first.text, detected_lang |-> "km", asr_calls |-> 1]
        ELSE LET n == IF language = "km" THEN 2 ELSE 1
                 result == IF language = "km" THEN _transcribe_sync(outcomes[2], None)
                           ELSE first
                 fallback_result == _transcribe_sync(outcomes[n + 1], None)
                 detected_lang == result.detected_language
             IN  IF HasText(result)
                 THEN IF (language = "km" \/ detected_lang = "km") /\ result.text = "latin"
                      THEN [text |-> IF HasText(fallback_result) THEN fallback_result.text
                                     ELSE result.text,
                            detected_lang |-> IF HasText(fallback_result) THEN "langdetect"
                                              ELSE detected_lang,
                            asr_calls |-> n + 1]
                      ELSE [text |-> result.text, detected_lang |-> detected_lang,
                            asr_calls |-> n]
                 ELSE [text |-> IF HasText(fallback_result) THEN fallback_result.text
                                ELSE "error",
                       detected_lang |-> IF HasText(fallback_result) THEN "langdetect"
                                         ELSE "unknown",
                       asr_calls |-> n + 1]

\* The language argument: absent, Khmer, another language.
LanguageHints == {None, "km", "en"}

\* transcribe_with_fallback is called and returns.
TranscribeWithFallback ==
    /\ revision = "fallback"
    /\ ~fn.done
    /\ fn' = [fn EXCEPT !.done = TRUE,
                        !.out = transcribe_with_fallback(fn.language, fn.outcomes)]
    /\ UNCHANGED <<revision, today, webVars, appVars, dbVars, hVars, wVars>>

\* transcribe_with_fallback about to be called.
InitFallback ==
    /\ revision = "fallback"
    /\ fn \in {[name |-> "transcribe_with_fallback", language |-> l, outcomes |-> o,
                 done |-> FALSE,
                 out |-> [text |-> "", detected_lang |-> "unknown", asr_calls |-> 0]] :
                    l \in LanguageHints, o \in [1..MaxAsrCalls -> AsrOutcomes]}
    /\ IdleServices

\* The transcription with fallback
SpecFallback == InitFallback /\ [][TranscribeWithFallback]_vars

----------------------------------------------------------------------------
(* services/transcribe.py: TranscribeService.transcribe *)

\* config/constants.py; sizes are counted in whole megabytes.
MAX_AUDIO_DURATION_FREE == 300
MAX_AUDIO_DURATION_PREMIUM == 3600
MAX_FILE_SIZE == 100

\* TranscribeService._estimate_duration: one minute per megabyte, in seconds.
_estimate_duration(megabytes) == megabytes * 60

\* TranscribeService.transcribe on media data of the given size. client_ready:
\* OPENAI_API_KEY was set; asr: openai.Audio.transcribe returns rather than
\* raises. The size is checked before the request, the estimated duration
\* after it; the format of the data is not looked at.
transcribe(megabytes, user_subscription, client_ready, asr) ==
    LET max_duration == IF user_subscription = "premium"
                        THEN MAX_AUDIO_DURATION_PREMIUM
                        ELSE MAX_AUDIO_DURATION_FREE
    IN  IF ~client_ready
        THEN [success |-> TRUE, error |-> None, asr_calls |-> 0]
        ELSE IF megabytes > MAX_FILE_SIZE
        THEN [success |-> FALSE, error |-> "too_big", asr_calls |-> 0]
        ELSE IF ~asr
        THEN [success |-> FALSE, error |-> "transcription_error", asr_calls |-> 1]
        ELSE IF _estimate_duration(megabytes) > max_duration
        THEN [success |-> FALSE, error |-> "too_long", asr_calls |-> 1]
        ELSE [success |-> TRUE, error |-> None, asr_calls |-> 1]

\* transcribe is called and returns.
Transcribe ==
    /\ revision = "transcribe"
    /\ ~fn.done
    /\ fn' = [fn EXCEPT !.done = TRUE,
                        !.out = transcribe(fn.megabytes, fn.user_subscription,
                                           fn.client_ready, fn.asr)]
    /\ UNCHANGED <<revision, today, webVars, appVars, dbVars, hVars, wVars>>

\* transcribe about to be called; supported: the data is audio or video of a
\* supported format.
InitTranscribe ==
    /\ revision = "transcribe"
    /\ fn \in {[name |-> "transcribe", megabytes |-> m, user_subscription |-> u,
                 supported |-> f, client_ready |-> c, asr |-> a, done |-> FALSE,
                 out |-> [success |-> FALSE, error |-> None, asr_calls |-> 0]] :
                    m \in 0..MaxMegabytes, u \in {"free", "premium"},
                    f \in BOOLEAN, c \in BOOLEAN, a \in BOOLEAN}
    /\ IdleServices

\* The transcription service of services/transcribe.py
SpecTranscribe == InitTranscribe /\ [][Transcribe]_vars

\* The verification handshake
SpecVerify == InitVerify /\ [][VerifyWebhook \/ AppVerifyWebhook]_vars

\* Inbound events over HTTP
SpecWeb == (InitRoutes \/ InitApp) /\ [][HandleWebhook \/ AppHandleWebhook \/ Midnight]_vars

\* MessageHandler.handle_message, one message at a time
NextServices ==
    \/ Midnight
    \/ \E p \in SeqHandlers : HReceive(p)
    \/ \E p \in SeqHandlers : HReset(p)
    \/ \E p \in SeqHandlers : HCreate(p)
    \/ \E p \in SeqHandlers : HCheck(p)
    \/ \E p \in SeqHandlers : HMedia(p)
SpecServices == InitServices /\ [][NextServices]_vars

\* The package's message handler over the results of process_media
SpecOutcomes ==
    InitOutcomes /\ [][ \/ \E p \in SeqHandlers : HReceive(p)
                        \/ \E p \in SeqHandlers : HReset(p)
                        \/ \E p \in SeqHandlers : HCheck(p)
                        \/ \E p \in SeqHandlers : HMediaResult(p) ]_vars

\* The package's message handler, attachments and the language buttons
SpecRetry ==
    InitRetry /\ [][ \/ \E p \in SeqHandlers : HReceive(p)
                     \/ \E p \in SeqHandlers : HReset(p)
                     \/ \E p \in SeqHandlers : HCheck(p)
                     \/ \E p \in SeqHandlers : HMedia(p) ]_vars

\* The package's message handler, several messages in flight, with malformed
\* events and raising steps
SpecRace ==
    InitRace /\ [][ \/ \E p \in Handlers : HReceive(p)
                    \/ \E p \in Handlers : HMalformed(p)
                    \/ \E p \in Handlers : HReset(p)
                    \/ \E p \in Handlers : HCreate(p)
                    \/ \E p \in Handlers : HCheck(p)
                    \/ \E p \in Handlers : HMediaResult(p)
                    \/ \E p \in Handlers : HRaise(p) ]_vars

\* The monolith's audio handler and its payment routes
SpecPayment ==
    InitPayment /\ [][AppHandleAudio \/ Midnight \/ PaypalWebhook \/ TwocheckoutIpn]_vars

\* Both message handlers: the monolith's and the package's
SpecQuota == (InitAudio \/ InitServices) /\ [][AppHandleAudio \/ NextServices]_vars

\* The Database class
SpecDb ==
    InitDb /\ [][ \/ Midnight
                  \/ \E u \in Users : DbGetUser(u)
                  \/ \E u \in Users : DbCreateUser(u)
                  \/ \E u \in Users : DbIncrementUsage(u) ]_vars

\* The Celery worker
NextWorker == WorkerEnqueue \/ WorkerRun
SpecWorker == InitWorker /\ [][NextWorker]_vars

\* The three places that process an attachment: the monolith's audio handler,
\* the package's message handler and the worker task
SpecFrame == (InitAudio \/ InitServices \/ InitWorker)
             /\ [][AppHandleAudio \/ NextServices \/ NextWorker]_vars

\* process_media_task for every result of process_media
SpecTask == InitTask /\ [][WorkerRunResult]_vars

----------------------------------------------------------------------------
(* Properties *)

PostHandlers == {"routes.handle_webhook", "app.handle_webhook"}
GetHandlers == {"routes.verify_webhook", "app.verify_webhook"}

\* C1: every POST to /webhook is answered with status 200, also when the
\* handling of the request raised an exception.
C1_PostAlways200 ==
    http.handler \in PostHandlers => http.status = 200

\* C2: no media download, ASR call or translation call is made for a message
\* of a user whose daily usage is at or above the limit of the user's tier:
\* every such call, in the monolith and in the package, was made with the
\* usage below the limit (the monolith's premium tier has no limit).
C2_QuotaBeforePaidCall ==
    /\ \A i \in 1..Len(appCalls) :
          \/ appCalls[i].sub = "premium"
          \/ appCalls[i].usage < APP_FREE_DAILY_LIMIT
    /\ \A p \in Handlers : \A i \in 1..Len(calls[p]) :
          calls[p][i].usage < (IF calls[p][i].is_premium THEN PREMIUM_DAILY_LIMIT
                               ELSE FREE_DAILY_LIMIT)

\* C2 case: the monolith called the ASR for a free user one below the limit.
C2_Witness ==
    \E i \in 1..Len(appCalls) :
        /\ appCalls[i].op = "asr"
        /\ appCalls[i].sub = "free"
        /\ appCalls[i].usage = APP_FREE_DAILY_LIMIT - 1

\* C3: an attachment from a free user whose usage today equals the free limit
\* is answered with the limit-exceeded message and nothing else, no download
\* or transcription is run, and the stored daily usage and the total stay as
\* they were. Package: the outcome of a finished handle_message whose day did
\* not change under it. Monolith: the outcome of handle_audio_message from
\* the state the program is in, whatever the outside world does.
C3_LimitRefusalFrame ==
    /\ \A p \in Handlers :
          LET u == local[p].sender
              user == local[p].user
          IN  ( /\ pc[p] = "done"
                /\ local[p].kind = "audio"
                /\ u # NoSender
                /\ user.exists /\ ~user.is_premium
                /\ user.daily_usage = FREE_DAILY_LIMIT
                /\ user.daily_reset_date = local[p].day
                /\ local[p].day = today )
              => /\ sent[p] = <<"limit_exceeded">>
                 /\ calls[p] = <<>>
                 /\ users[u].daily_usage = user.daily_usage
                 /\ users[u].total_transcriptions = user.total_transcriptions
    /\ revision = "audio" =>
          \A u \in Users, in \in Inputs :
              LET s == handle_audio_message(AppState, u, in, today)
              IN  ( /\ appUsers[u].exists
                    /\ appUsers[u].subscription_type = "free"
                    /\ get_daily_usage(appUsage, u, today) = APP_FREE_DAILY_LIMIT )
                  => /\ s.sent = IF in.net THEN <<"limit_exceeded">> ELSE <<>>
                     /\ s.calls = <<>>
                     /\ s.usage = appUsage
                     /\ s.users = appUsers

\* C3 case: the monolith refused an attachment of a free user at the limit.
C3_Witness ==
    /\ revision = "audio"
    /\ appSent = <<"limit_exceeded">>
    /\ appCalls = <<>>
    /\ \E u \in Users : /\ appUsers[u].subscription_type = "free"
                        /\ get_daily_usage(appUsage, u, today) = APP_FREE_DAILY_LIMIT

\* C4: an existing free user with usage 0 today sends a valid audio attachment
\* and every outside service answers: handle_message replies with the
\* transcript and the stored daily usage becomes 1.
C4_FirstAudioTranscribed ==
    \A p \in Handlers :
        ( /\ pc[p] = "done"
          /\ local[p].kind = "audio"
          /\ local[p].user.exists /\ ~local[p].user.is_premium
          /\ local[p].user.daily_usage = 0
          /\ local[p].user.daily_reset_date = local[p].day
          /\ local[p].day = today
          /\ local[p].ok )
        => /\ \E i \in 1..Len(sent[p]) : sent[p][i] = "transcript"
           /\ users[local[p].sender].daily_usage = 1

\* C5: on a day on which get_user has read a record that was there at
\* midnight, the daily usage of that record has been reset exactly once; no
\* record is reset twice on one day.
C5_ResetOncePerDay ==
    \A u \in Users :
        /\ hist[u].resets <= 1
        /\ (hist[u].stale /\ hist[u].reads = 1) => hist[u].resets = 1

\* C6: the first message of a new day from a user who was at the limit the
\* day before is handled with usage 0: it is not answered with the
\* limit-exceeded message.
C6_ActiveAfterMidnight ==
    \A p \in Handlers :
        ( /\ pc[p] = "done"
          /\ local[p].user.exists
          /\ local[p].user.daily_reset_date < local[p].day
          /\ ~_check_usage_limits(local[p].user) )
        => \A i \in 1..Len(sent[p]) : sent[p][i] # "limit_exceeded"

\* C7: the first message of a sender without a record creates one record
\* (daily_usage 0, not premium), is answered with the welcome message and
\* with nothing else, and makes no external call; a sender gets at most one
\* record and one welcome, and only a message that found no record is
\* answered with the welcome.
C7_WelcomeOnce ==
    /\ \A u \in Users :
          /\ hist[u].created <= 1
          /\ hist[u].welcomes = hist[u].created
          /\ hist[u].created = 1 => users[u].exists
    /\ \A p \in Handlers :
          LET u == local[p].sender
          IN  /\ ( pc[p] = "done" /\ u # NoSender /\ ~local[p].user.exists )
                 => /\ sent[p] = <<"welcome">>
                    /\ calls[p] = <<>>
                    /\ local[p].ret = "True"
                    /\ hist[u].created = 1
                    /\ users[u].exists
                    /\ users[u].daily_usage = 0
                    /\ ~users[u].is_premium
                    /\ users[u].total_transcriptions = 0
                    /\ transcriptions[u] = 0
              /\ ( u # NoSender /\ local[p].user.exists )
                 => \A i \in 1..Len(sent[p]) : sent[p][i] # "welcome"

\* C7 case: a first message was answered with the welcome and its record made.
C7_Witness ==
    \E p \in Handlers :
        /\ pc[p] = "done"
        /\ ~local[p].user.exists
        /\ sent[p] = <<"welcome">>
        /\ hist[local[p].sender].created = 1

\* C8: GET /webhook answers with the challenge only when the token supplied
\* equals the configured secret; without a token, with a wrong token, or with
\* no secret configured the answer is 403 'Invalid token'.
C8_ChallengeOnlyOnMatch ==
    http.handler \in GetHandlers =>
        IF env.VERIFY_TOKEN # None /\ http.token = env.VERIFY_TOKEN
        THEN http.challenge # None => (http.status = 200 /\ http.body = http.challenge)
        ELSE http.status = 403 /\ http.body = "Invalid token"

\* C9: with the app secret configured, a POST that carries messaging events
\* and whose signature header is not the HMAC-SHA256 of the body received is
\* rejected, and none of its events is dispatched.
C9_BadSignatureRejected ==
    ( /\ http.handler \in PostHandlers
      /\ env.APP_SECRET # None
      /\ http.events > 0
      /\ ~http.signed )
    => http.status # 200 /\ http.dispatched = 0

C12_TempFileGone ==
    /\ \A p \in Handlers : pc[p] = "done" => local[p].temp # "left"
    /\ ( task.state \in {"success", "failure"} /\ task.attempts > 0 ) => ~task.exists

\* C13: a handled RETRY_LANG_<code> request with a known code, sent after an
\* attachment of the same user was processed, runs the transcription again
\* and sends the new transcript when the file of that attachment is still on
\* disk, and runs no transcription when it is not.
C13_RetryRerunsTranscription ==
    \A p \in Handlers :
        (/\ pc[p] = "done"
         /\ local[p].kind = "retry_lang"
         /\ local[p].sender # NoSender
         /\ hist[local[p].sender].file # "none"
         /\ \A i \in 1..Len(sent[p]) : sent[p][i] # "limit_exceeded")
        => IF hist[local[p].sender].file = "left"
           THEN /\ \E i \in 1..Len(calls[p]) : calls[p][i].op = "asr"
                /\ \E i \in 1..Len(sent[p]) : sent[p][i] = "transcript"
           ELSE \A i \in 1..Len(calls[p]) : calls[p][i].op # "asr"

C15_QualityByRatio ==
    (/\ fn.name = "analyze_script_quality" /\ fn.done
     /\ fn.expected_language \in ScriptLanguages
     /\ TextLen(fn.text) - fn.text.nonalpha >= 1)
    => LET ratio == fn.result.native_ratio
       IN  fn.result.quality =
              IF 5 * ratio.num >= 4 * ratio.den THEN "excellent"
              ELSE IF 2 * ratio.num >= ratio.den THEN "good"
              ELSE IF 5 * ratio.num >= ratio.den THEN "mixed"
              ELSE "poor"

\* C16: for a successfully transcribed text of at most 5 words that contains
\* at least 2 keywords of the Khmer list, process_media reports the language
\* km, whatever language came with the transcript.
C16_KhmerKeywordsWin ==
    (/\ fn.name = "process_media" /\ fn.done
     /\ fn.result.success
     /\ fn.result.text.total_words <= 5
     /\ fn.result.text.khmer_word_count >= 2)
    => (fn.out.success /\ fn.out.detected_language = "km")

\* C16 case: five words, two keywords, no place name and no phrase, the
\* transcript came labelled en and is reported as km.
C16_Witness ==
    /\ fn.name = "process_media" /\ fn.done
    /\ fn.result.success
    /\ fn.result.text = [total_words |-> 5, khmer_word_count |-> 2, place |-> FALSE,
                         phrase |-> FALSE]
    /\ fn.result.detected_language = "en"
    /\ fn.out.detected_language = "km"

\* C17: one invocation of transcribe_with_fallback makes at most two requests
\* to the ASR, the first attempt and one fallback, whatever the language hint
\* and whatever the requests come to.
C17_AtMostOneFallback ==
    (fn.name = "transcribe_with_fallback" /\ fn.done) => fn.out.asr_calls <= 2

C20_InvalidNeverTranscribed ==
    (/\ fn.name = "transcribe" /\ fn.done
     /\ \/ fn.megabytes > MAX_FILE_SIZE
        \/ ~fn.supported
        \/ _estimate_duration(fn.megabytes) >
              (IF fn.user_subscription = "premium" THEN 3600 ELSE 300))
    => /\ ~fn.out.success
       /\ fn.out.error # None
       /\ fn.out.asr_calls = 0

\* C10: a job is retried at most two times, and a job that failed for good
\* has sent the 'failed after several attempts' notice exactly once.
C10_GaveUpNoticeOnce ==
    /\ task.retries <= max_retries
    /\ task.attempts <= max_retries + 1
    /\ ( task.state = "failure" /\ task.init )
       => Len(SelectSeq(wSent, LAMBDA m : m = "gave_up")) = 1

\* C21: a worker whose services could not be initialised answers a job with
\* the 'handler not initialized' reply and the task returns without raising.
C21_WorkerStubReply ==
    (~task.init /\ task.attempts > 0)
    => (task.exc = None /\ wSent = <<"not_initialized">>)

\* C22: in the monolith, get_daily_usage of a user is the number of
\* increment_user_usage calls made for the user since the start of the UTC
\* day, which is the number of attachments transcribed for the user since
\* then, and check_user_limits refuses a free user exactly when that number
\* is at least the free daily limit.
C22_UsageEventsCount ==
    revision = "audio" =>
        \A u \in Users :
            /\ get_daily_usage(appUsage, u, today) = hist[u].incs
            /\ hist[u].incs = hist[u].transcribed
            /\ (appUsers[u].exists /\ appUsers[u].subscription_type = "free")
               => (~check_user_limits(appUsers[u], appUsage, u, today)
                      <=> hist[u].incs >= APP_FREE_DAILY_LIMIT)

\* C22 case: on the second day a free user has been transcribed for the
\* first time that day, with events of the day before in the store.
C22_Witness ==
    /\ revision = "audio"
    /\ today = 1
    /\ \E u \in Users : /\ appUsers[u].subscription_type = "free"
                        /\ appUsage[u][0] > 0
                        /\ hist[u].transcribed = 1
                        /\ get_daily_usage(appUsage, u, today) = 1

C24_NoIncrementLost ==
    revision = "db" =>
        \A u \in Users :
            (users[u].exists /\ (hist[u].reads = 1 \/ hist[u].incs > 0))
                => users[u].daily_usage = hist[u].incs

\* C25: over all attempts of a job the worker sends the user at most one
\* outcome message (the transcript or a failure notice), and exactly one
\* once the job has finished.
C25_OneFinalOutcome ==
    revision = "task" =>
        /\ Len(wSent) <= 1
        /\ (task.attempts > 0 /\ task.state \in {"success", "failure"})
               => Len(wSent) = 1

\* C26: a step that processes an attachment and in which the download, the
\* validation, the normalisation or the transcription fails leaves the usage
\* counters and the transcription records as they were: in the package's
\* message handler, in the monolith's handle_audio_message (no attachment
\* transcribed in the step) and in an attempt of the worker task.
C26_FailureFrame ==
    [][ /\ \A p \in Handlers :
             ( /\ pc[p] = "media" /\ pc'[p] = "done"
               /\ (~local'[p].ok \/ local'[p].ret = "False") )
             => (users' = users /\ transcriptions' = transcriptions)
        /\ (revision = "audio"
            /\ \A u \in Users : hist'[u].transcribed = hist[u].transcribed)
             => /\ appUsage' = appUsage
                /\ \A u \in Users : appUsers'[u].total_transcriptions
                                      = appUsers[u].total_transcriptions
        /\ (task'.attempts = task.attempts + 1 /\ task'.result # "success")
             => (users' = users /\ transcriptions' = transcriptions)
      ]_vars

\* C26 case: the package's handler has ended the processing of an attachment
\* that could not be normalised and the sender's stored usage is what the
\* handler read.
C26_Witness ==
    /\ revision = "services"
    /\ \E p \in Handlers :
         /\ pc[p] = "done" /\ local[p].kind = "audio" /\ local[p].ret = "False"
         /\ \E i \in 1..Len(sent[p]) : sent[p][i] = "error_media"
         /\ local[p].user.daily_usage > 0
         /\ users[local[p].sender].daily_usage = local[p].user.daily_usage

C28_NeverPropagates ==
    revision = "race" =>
        \A p \in Handlers : pc[p] = "done" => local[p].ret \in {"True", "False"}

\* C28 case: a step of the handler raised for a stored sender while the Graph
\* API was answering: the error message was sent and the call returned False.
C28_Witness ==
    /\ revision = "race"
    /\ \E p \in Handlers :
         /\ pc[p] = "done" /\ local[p].user.exists /\ local[p].kind = "audio"
         /\ local[p].ret = "False"
         /\ sent[p] = <<"error">>

\* C29: a premium user whose subscription_end has passed is held to the free
\* limit: with the free daily limit of usages today, a step makes no paid
\* call for the user.
C29_ExpiredPremiumLimited ==
    [][ revision = "payment" =>
          \A u \in Users :
              ( /\ Expired(appUsers[u], today)
                /\ get_daily_usage(appUsage, u, today) >= APP_FREE_DAILY_LIMIT )
              => \/ appCalls' = appCalls
                 \/ \A i \in 1..Len(appCalls') : appCalls'[i].user # u
      ]_vars

\* C30: a payment notification whose signature is not genuine leaves the
\* subscription type of every user as it was.
C30_ForgedNotificationFrame ==
    [][ (revision = "payment" /\ fn'.seq = fn.seq + 1 /\ ~fn'.genuine)
          => \A u \in Users :
                 appUsers'[u].subscription_type = appUsers[u].subscription_type
      ]_vars

====
